---- MODULE Spec2Model ----
(***************************************************************************)
(* Model of the Python executor service (python_executor_mcp.py) and of    *)
(* the terminal toolset's step log (terminal.py).                          *)
(*                                                                         *)
(* PythonExecutor keeps a dict of sessions, each holding a Jupyter kernel  *)
(* manager (km), its client (the channel), an in-memory notebook, the path *)
(* of the notebook on disk and an execution counter.  execute_code is      *)
(* modelled as the steps of a caller: session lookup/creation, the pending *)
(* write of the notebook, the submission, the poll loop, the post-interrupt*)
(* drain and the final write + counter + step log.  The kernel is an       *)
(* environment process emitting iopub messages.  Every library call that   *)
(* can raise is a nondeterministic choice between success and a fault.     *)
(***************************************************************************)
EXTENDS Integers, Sequences, FiniteSets, TLC

\* ------------------------------------------------------------- bounds
MaxCalls == 2       \* execute_code calls over a run
MaxInFlight == 1    \* execute_code calls in flight at once (on distinct sessions)
MaxWorkers == 2     \* kernels started over a run
MaxEmit == 2        \* messages the kernels emit over a run, not counting those of an ignored interrupt
MaxFaults == 1      \* faults of the environment (library calls that raise) over a run
MaxTimeouts == 1    \* execute_code calls whose deadline passes over a run
MaxQueue == 1       \* iopub messages queued by a kernel that ignores an interrupt
MaxTermLog == 2     \* terminal entries in the step log
MaxTerm == 1        \* tmux sessions created over a run

\* ------------------------------------------------------------- inputs
\* session names are character sequences; both sanitize to the same file stem
SessionNames == { <<"a", "/">>, <<"a", "_">> }
\* the code of the i-th call of a run: every call submits another text
Codes == <<"x = 1", "print(x)", "while True: pass", "x">>
CodeOf(i) == Codes[((i - 1) % Len(Codes)) + 1]

Workers == 1..MaxWorkers

VARIABLES
    sessions,       \* self.sessions: name -> session dict
    keys,           \* insertion order of self.sessions (dict order)
    disk,           \* notebook files under self.path: filename -> cells
    log,            \* steps.jsonl, shared with the terminal toolset
    disableStepLog, \* os.getenv("DISABLE_STEP_LOG") is set
    kernel,         \* kernel processes and their channels, by worker id
    nextWorker,     \* id of the next kernel to be started
    calls,          \* execute_code calls made so far
    pc,             \* position of the execute_code call in flight on each name
    frame,          \* locals of the execute_code call in flight on each name
    ret,            \* response with which the last step ended an operation, if it did
    tmux,           \* terminal sessions of the tmux server: id -> pane content
    nextTmux,       \* id the tmux server gives to the next session
    faults,         \* faults injected so far
    timeouts,       \* deadlines passed so far
    emits           \* messages emitted so far

vars == <<sessions, keys, disk, log, disableStepLog, kernel, nextWorker, calls,
          pc, frame, ret, tmux, nextTmux, faults, timeouts, emits>>

\* a library call succeeds (ok) or raises: a fault, counted against the budget
Cost(ok) == IF ok THEN 0 ELSE 1

Fault(ok) ==
    /\ faults + Cost(ok) <= MaxFaults
    /\ faults' = faults + Cost(ok)

\* ------------------------------------------------------------- filenames
\* re.sub(r'[^\w\-.]', '_', name): every character outside [A-Za-z0-9_.-] becomes '_'
WordChars == {"a", "b", "0", "1", "2", "3", "4", "5", "6", "7", "8", "9", "_"}

_sanitize_filename(name) ==
    [i \in DOMAIN name |-> IF name[i] \in WordChars \cup {"-", "."} THEN name[i] ELSE "_"]

Digits == <<"0", "1", "2", "3", "4", "5", "6", "7", "8", "9">>

RECURSIVE DecimalOf(_)
DecimalOf(i) == IF i < 10 THEN <<Digits[i + 1]>>
                ELSE DecimalOf(i \div 10) \o <<Digits[(i % 10) + 1]>>

\* f"{sanitized_name}.ipynb" and f"{sanitized_name}_{i}.ipynb"
BasePath(stem) == stem \o <<".ipynb">>
SuffixPath(stem, i) == stem \o <<"_">> \o DecimalOf(i) \o <<".ipynb">>

RECURSIVE FirstFree(_, _, _)
FirstFree(stem, i, files) ==
    IF SuffixPath(stem, i) \notin files THEN SuffixPath(stem, i)
    ELSE FirstFree(stem, i + 1, files)

\* os.path.exists is asked of the files present when the session is created
_get_unique_filepath(session_name, files) ==
    LET sanitized_name == _sanitize_filename(session_name)
    IN  IF BasePath(sanitized_name) \notin files THEN BasePath(sanitized_name)
        ELSE FirstFree(sanitized_name, 1, files)

\* ------------------------------------------------------------- kernel
\* A kernel process with its client channels.  shell holds the submissions the
\* kernel has accepted and not finished (the head is the one running), iopub
\* the messages waiting on the client's iopub channel, replies the number of
\* execute replies waiting on its shell channel.
NoKernel == [alive |-> FALSE, channels |-> "none", iopub |-> <<>>, shell |-> <<>>,
             replies |-> 0, emitted |-> 0, interrupted |-> FALSE, mem |-> {},
             nextMsg |-> 1]

\* km.start_kernel(); client.start_channels(); the kernel became ready
StartedKernel == [NoKernel EXCEPT !.alive = TRUE, !.channels = "open"]

\* client.stop_channels(): the channel is closed, queued messages are gone
StopChannels(k) == [k EXCEPT !.channels = "closed", !.iopub = <<>>, !.replies = 0]

\* km.shutdown_kernel(now=True): the process is killed, what it held is gone
ShutdownKernel(k) == [NoKernel EXCEPT !.channels = k.channels, !.iopub = k.iopub,
                                      !.replies = k.replies]

OutputTypes == {"stream", "execute_result", "display_data", "error"}

Msg(parent, msg_type, state, data) ==
    [parent |-> parent, msg_type |-> msg_type, execution_state |-> state, data |-> data]

DataOf(i) == Digits[(i % 10) + 1]

\* nbf.new_output(output_type, ...): the payload of a stream is its text, of
\* an error its ename/evalue/traceback, of the others their data
new_output(output_type, data, execution_count) ==
    [output_type |-> output_type, data |-> data, execution_count |-> execution_count]

SystemNotice(text) == new_output("display_data", text, 0)

TimeoutNotice == SystemNotice("[SYSTEM] Execution timeout. Attempting to interrupt...")
InterruptedNotice == SystemNotice("[SYSTEM] Kernel interrupted. Session state preserved.")
InterruptFailedNotice == SystemNotice("[SYSTEM] Failed to interrupt kernel")
ExecuteFailedNotice == SystemNotice("[SYSTEM] Failed to execute code or retrieve output")

\* _format_output: the four output types are projected to plain records with
\* the key "type"; an object of any other type is left out
FormatOne(out) ==
    IF out.output_type = "execute_result"
    THEN [type |-> "execute_result", data |-> out.data, execution_count |-> out.execution_count]
    ELSE [type |-> out.output_type, data |-> out.data, execution_count |-> 0]

RECURSIVE _format_output(_)
_format_output(output_objects) ==
    IF output_objects = <<>> THEN <<>>
    ELSE LET out == Head(output_objects)
             rest == _format_output(Tail(output_objects))
         IN  IF out.output_type \in OutputTypes THEN <<FormatOne(out)>> \o rest ELSE rest

\* ------------------------------------------------------------- calls
\* The service is asked by any number of clients; an execute_code call in
\* flight is identified by its session name, since one session has one caller
\* at a time (the supported configuration).  frame[n] holds the locals of the
\* call in flight on name n.
NoFrame == [code |-> "", km |-> 0, filepath |-> <<>>, exec_count |-> 0,
            cell |-> 0, msg_id |-> 0, output_objects |-> <<>>,
            shell_reply_received |-> FALSE]

NoRet == [op |-> "none", name |-> <<>>, kind |-> "none", value |-> "none"]
Return(op, name, value) == [op |-> op, name |-> name, kind |-> "return", value |-> value]
Raise(op, name, exception) == [op |-> op, name |-> name, kind |-> "raise", value |-> exception]

\* nbf.new_code_cell(code, execution_count=exec_count) with cell.outputs = []
new_code_cell(code, exec_count) ==
    [source |-> code, execution_count |-> exec_count, outputs |-> <<>>]

\* list(self.sessions.keys())
list_sessions == keys

\* the names with an execute_code call in flight
InFlight == {n \in SessionNames : pc[n] # "idle"}

Init ==
    /\ sessions = <<>>
    /\ keys = <<>>
    /\ disk = <<>>
    /\ log = <<>>
    /\ disableStepLog \in BOOLEAN
    /\ kernel = [w \in Workers |-> NoKernel]
    /\ nextWorker = 1
    /\ calls = 0
    /\ pc = [n \in SessionNames |-> "idle"]
    /\ frame = [n \in SessionNames |-> NoFrame]
    /\ ret = NoRet
    /\ tmux = <<>>
    /\ nextTmux = 0
    /\ faults = 0
    /\ timeouts = 0
    /\ emits = 0

\* ------------------------------------------------------------- execute_code
\* _create_session, by its outcome: km.start_kernel() raises (no process, no
\* channel); wait_for_ready raises RuntimeError (channels stopped, kernel shut
\* down, RuntimeError raised); or the kernel is ready and the session is
\* registered with a fresh notebook and execution_count 1.
CreateOutcomes == {"ready", "start_failed", "not_ready"}

\* a variant that raises on a kernel that is not ready without stopping it
_create_session_leaves_kernel(session_name, code, outcome) ==
    LET w == nextWorker
        filepath == _get_unique_filepath(session_name, DOMAIN disk)
    IN  CASE outcome = "start_failed" ->
                /\ ret' = Raise("execute_code", session_name, "StartError")
                /\ UNCHANGED <<sessions, keys, kernel, nextWorker, pc, frame>>
          [] outcome = "not_ready" ->
                /\ kernel' = [kernel EXCEPT ![w] = StartedKernel]
                /\ nextWorker' = w + 1
                /\ ret' = Raise("execute_code", session_name, "RuntimeError")
                /\ UNCHANGED <<sessions, keys, pc, frame>>
          [] outcome = "ready" ->
                /\ kernel' = [kernel EXCEPT ![w] = StartedKernel]
                /\ nextWorker' = w + 1
                /\ sessions' = (session_name :> [km |-> w, client |-> w, notebook |-> <<>>,
                                                 filepath |-> filepath,
                                                 execution_count |-> 1]) @@ sessions
                /\ keys' = Append(keys, session_name)
                /\ frame' = [frame EXCEPT ![session_name] =
                                [NoFrame EXCEPT !.code = code, !.km = w,
                                                !.filepath = filepath, !.exec_count = 1]]
                /\ pc' = [pc EXCEPT ![session_name] = "pending"]
                /\ ret' = NoRet

_create_session(session_name, code, outcome) ==
    LET w == nextWorker
        filepath == _get_unique_filepath(session_name, DOMAIN disk)
    IN  CASE outcome = "start_failed" ->
                /\ ret' = Raise("execute_code", session_name, "StartError")
                /\ UNCHANGED <<sessions, keys, kernel, nextWorker, pc, frame>>
          [] outcome = "not_ready" ->
                /\ kernel' = [kernel EXCEPT ![w] = ShutdownKernel(StopChannels(StartedKernel))]
                /\ nextWorker' = w + 1
                /\ ret' = Raise("execute_code", session_name, "RuntimeError")
                /\ UNCHANGED <<sessions, keys, pc, frame>>
          [] outcome = "ready" ->
                /\ kernel' = [kernel EXCEPT ![w] = StartedKernel]
                /\ nextWorker' = w + 1
                /\ sessions' = (session_name :> [km |-> w, client |-> w, notebook |-> <<>>,
                                                 filepath |-> filepath,
                                                 execution_count |-> 1]) @@ sessions
                /\ keys' = Append(keys, session_name)
                /\ frame' = [frame EXCEPT ![session_name] =
                                [NoFrame EXCEPT !.code = code, !.km = w,
                                                !.filepath = filepath, !.exec_count = 1]]
                /\ pc' = [pc EXCEPT ![session_name] = "pending"]
                /\ ret' = NoRet

\* execute_code, lines 170-178: the session is created when the name is not
\* registered; its fields are read into locals
Begin(session_name, code) ==
    /\ pc[session_name] = "idle"
    /\ calls < MaxCalls
    /\ calls' = calls + 1
    /\ IF session_name \notin DOMAIN sessions
       THEN /\ nextWorker <= MaxWorkers
            /\ \E outcome \in CreateOutcomes :
                    /\ Fault(outcome = "ready")
                    /\ _create_session(session_name, code, outcome)
       ELSE LET session == sessions[session_name]
            IN  /\ frame' = [frame EXCEPT ![session_name] =
                                [NoFrame EXCEPT !.code = code, !.km = session.km,
                                                !.filepath = session.filepath,
                                                !.exec_count = session.execution_count]]
                /\ pc' = [pc EXCEPT ![session_name] = "pending"]
                /\ ret' = NoRet
                /\ UNCHANGED <<sessions, keys, kernel, nextWorker, faults>>
    /\ UNCHANGED <<disk, log, disableStepLog, tmux, nextTmux, timeouts, emits>>

\* a client calls execute_code while fewer than MaxInFlight calls are in flight
Call(session_name, code) ==
    /\ Cardinality(InFlight) < MaxInFlight
    /\ Begin(session_name, code)

\* the call in flight on name n ends with an exception
Raised(n, exception) ==
    /\ ret' = Raise("execute_code", n, exception)
    /\ pc' = [pc EXCEPT ![n] = "idle"]
    /\ frame' = [frame EXCEPT ![n] = NoFrame]

\* with open(filepath, 'w') as f: nbformat.write(notebook, f)
WriteNotebook(filepath, notebook) == (filepath :> notebook) @@ disk

\* lines 180-186: the cell is appended to the notebook and the notebook is
\* written, then the code is submitted (client.execute, outside the try
\* block).  A failing write and a failing submission both raise out of
\* execute_code.
Submit(n, writeOk, sendOk) ==
    /\ pc[n] = "pending"
    /\ sendOk \/ writeOk
    /\ faults + Cost(writeOk) + Cost(sendOk) <= MaxFaults
    /\ faults' = faults + Cost(writeOk) + Cost(sendOk)
    /\ LET w == frame[n].km
           k == kernel[w]
           cell == new_code_cell(frame[n].code, frame[n].exec_count)
           notebook == Append(sessions[n].notebook, cell)
       IN  /\ sessions' = [sessions EXCEPT ![n].notebook = notebook]
           /\ disk' = IF writeOk THEN WriteNotebook(frame[n].filepath, notebook) ELSE disk
           /\ IF writeOk /\ sendOk
              THEN /\ kernel' = [kernel EXCEPT ![w] =
                                   [k EXCEPT !.shell = Append(@, [msg_id |-> k.nextMsg,
                                                                  code |-> frame[n].code]),
                                             !.nextMsg = @ + 1]]
                   /\ frame' = [frame EXCEPT ![n].cell = Len(notebook),
                                             ![n].msg_id = k.nextMsg]
                   /\ pc' = [pc EXCEPT ![n] = "poll"]
                   /\ ret' = NoRet
              ELSE /\ Raised(n, IF writeOk THEN "ClientError" ELSE "OSError")
                   /\ UNCHANGED kernel
    /\ UNCHANGED <<keys, log, disableStepLog, nextWorker, calls, tmux, nextTmux, timeouts,
                   emits>>

\* ------------------------------------------------------------- step log
HasError(output_objects) ==
    \E i \in DOMAIN output_objects : output_objects[i].output_type = "error"

\* the entry _log_code_execution builds (timestamp, summaries and timing left out)
CodeEntry(session_name, output_objects) ==
    [tag |-> "code_execution", event |-> "execute_code", session |-> session_name,
     has_error |-> HasError(output_objects)]

\* a variant that does not read DISABLE_STEP_LOG
_log_code_execution_always(session_name, output_objects, logOk) ==
    IF logOk THEN Append(log, CodeEntry(session_name, output_objects)) ELSE log

\* _log_code_execution: nothing when DISABLE_STEP_LOG is set; a failing write
\* of the entry is swallowed
_log_code_execution(session_name, output_objects, logOk) ==
    IF disableStepLog THEN log
    ELSE IF logOk THEN Append(log, CodeEntry(session_name, output_objects))
    ELSE log

\* lines 258-268, reached when the poll loop is left with output_objects: the
\* outputs are stored in the cell, the notebook is written (a failing write
\* raises out of execute_code), the counter is incremented, the step is
\* logged and the formatted outputs are returned
Finish(n, output_objects, writeOk, logOk) ==
    LET notebook == [sessions[n].notebook EXCEPT ![frame[n].cell].outputs = output_objects]
    IN  /\ logOk \/ (writeOk /\ ~disableStepLog)
        /\ pc' = [pc EXCEPT ![n] = "idle"]
        /\ frame' = [frame EXCEPT ![n] = NoFrame]
        /\ IF writeOk
           THEN /\ disk' = WriteNotebook(frame[n].filepath, notebook)
                /\ sessions' = [sessions EXCEPT ![n].notebook = notebook,
                                                ![n].execution_count = @ + 1]
                /\ log' = _log_code_execution(n, output_objects, logOk)
                /\ ret' = Return("execute_code", n, _format_output(output_objects))
           ELSE /\ sessions' = [sessions EXCEPT ![n].notebook = notebook]
                /\ ret' = Raise("execute_code", n, "OSError")
                /\ UNCHANGED <<disk, log>>

\* the poll loop goes on with output_objects
Continue(n, output_objects) ==
    /\ frame' = [frame EXCEPT ![n].output_objects = output_objects]
    /\ ret' = NoRet
    /\ UNCHANGED <<sessions, disk, log, pc>>

\* ------------------------------------------------------------- poll loop
\* a variant that recovers from a timeout by killing the kernel
InterruptKernel_kills(k) == ShutdownKernel(k)

\* km.interrupt_kernel(): the signal reaches the submission the kernel is running
InterruptKernel(k) == IF k.shell # <<>> THEN [k EXCEPT !.interrupted = TRUE] ELSE k

HasTimedOut(output_objects) ==
    \E i \in DOMAIN output_objects : output_objects[i] = TimeoutNotice

\* lines 198-204 and 217-221: the deadline has passed; the timeout notice is
\* appended and the kernel is interrupted.  A failing interrupt_kernel() is
\* recorded as a notice and ends the loop, otherwise the drain (lines
\* 205-213) starts.
PollTimeout(n, interruptOk, writeOk, logOk) ==
    /\ pc[n] = "poll"
    /\ timeouts < MaxTimeouts
    /\ timeouts' = timeouts + 1
    /\ faults + Cost(interruptOk) + Cost(writeOk) + Cost(logOk) <= MaxFaults
    /\ faults' = faults + Cost(interruptOk) + Cost(writeOk) + Cost(logOk)
    /\ LET w == frame[n].km
           outs == Append(frame[n].output_objects, TimeoutNotice)
       IN  IF interruptOk
           THEN /\ writeOk /\ logOk
                /\ kernel' = [kernel EXCEPT ![w] = InterruptKernel(@)]
                /\ frame' = [frame EXCEPT ![n].output_objects = outs]
                /\ pc' = [pc EXCEPT ![n] = "drain"]
                /\ ret' = NoRet
                /\ UNCHANGED <<sessions, disk, log>>
           ELSE /\ Finish(n, Append(outs, InterruptFailedNotice), writeOk, logOk)
                /\ UNCHANGED kernel
    /\ UNCHANGED <<keys, disableStepLog, nextWorker, calls, tmux, nextTmux, emits>>

\* lines 228-242: what one message of this submission adds to output_objects
Collect(output_objects, msg, exec_count) ==
    CASE msg.msg_type = "stream" ->
            Append(output_objects, new_output("stream", msg.data, 0))
      [] msg.msg_type = "execute_result" ->
            Append(output_objects, new_output("execute_result", msg.data, exec_count))
      [] msg.msg_type = "display_data" ->
            Append(output_objects, new_output("display_data", msg.data, 0))
      [] msg.msg_type = "error" ->
            Append(output_objects, new_output("error", msg.data, 0))
      [] OTHER -> output_objects

\* a variant that takes an error message for the end of the execution
IsIdle_or_error(msg) ==
    (msg.msg_type = "status" /\ msg.execution_state = "idle") \/ msg.msg_type = "error"

IsIdle(msg) == msg.msg_type = "status" /\ msg.execution_state = "idle"

\* a variant that does not compare the parent of a message with msg_id
PollMsg_keeps_stale(n, writeOk, logOk) ==
    /\ pc[n] = "poll"
    /\ faults + Cost(writeOk) + Cost(logOk) <= MaxFaults
    /\ faults' = faults + Cost(writeOk) + Cost(logOk)
    /\ LET w == frame[n].km
           msg == Head(kernel[w].iopub)
       IN  /\ kernel[w].iopub # <<>>
           /\ kernel' = [kernel EXCEPT ![w].iopub = Tail(@)]
           /\ IF IsIdle(msg)
              THEN Finish(n, frame[n].output_objects, writeOk, logOk)
              ELSE /\ writeOk /\ logOk
                   /\ Continue(n, Collect(frame[n].output_objects, msg,
                                          frame[n].exec_count))
    /\ UNCHANGED <<keys, disableStepLog, nextWorker, calls, tmux, nextTmux, timeouts,
                   emits>>

\* lines 223-242: get_iopub_msg returns the next message of the channel; a
\* message of another submission is skipped, the idle status of this one ends
\* the loop, an output is collected
PollMsg(n, writeOk, logOk) ==
    /\ pc[n] = "poll"
    /\ faults + Cost(writeOk) + Cost(logOk) <= MaxFaults
    /\ faults' = faults + Cost(writeOk) + Cost(logOk)
    /\ LET w == frame[n].km
           msg == Head(kernel[w].iopub)
       IN  /\ kernel[w].iopub # <<>>
           /\ kernel' = [kernel EXCEPT ![w].iopub = Tail(@)]
           /\ IF msg.parent # frame[n].msg_id
              THEN writeOk /\ logOk /\ Continue(n, frame[n].output_objects)
              ELSE IF IsIdle(msg)
                   THEN Finish(n, frame[n].output_objects, writeOk, logOk)
                   ELSE /\ writeOk /\ logOk
                        /\ Continue(n, Collect(frame[n].output_objects, msg,
                                               frame[n].exec_count))
    /\ UNCHANGED <<keys, disableStepLog, nextWorker, calls, tmux, nextTmux, timeouts,
                   emits>>

\* lines 244-252: nothing on iopub within the slice; the shell channel is
\* asked for a reply (of whatever submission) until one has been received
PollEmpty(n) ==
    /\ pc[n] = "poll"
    /\ LET w == frame[n].km
       IN  /\ kernel[w].iopub = <<>>
           /\ IF ~frame[n].shell_reply_received /\ kernel[w].replies > 0
              THEN /\ frame' = [frame EXCEPT ![n].shell_reply_received = TRUE]
                   /\ kernel' = [kernel EXCEPT ![w].replies = @ - 1]
              ELSE UNCHANGED <<frame, kernel>>
    /\ ret' = NoRet
    /\ UNCHANGED <<sessions, keys, disk, log, disableStepLog, nextWorker, calls,
                   pc, tmux, nextTmux, faults, timeouts, emits>>

\* lines 254-256: get_iopub_msg or get_shell_msg raises something else than
\* Empty; the exception becomes a notice and the loop is left
PollFault(n, writeOk, logOk) ==
    /\ pc[n] = "poll"
    /\ faults + 1 + Cost(writeOk) + Cost(logOk) <= MaxFaults
    /\ faults' = faults + 1 + Cost(writeOk) + Cost(logOk)
    /\ Finish(n, Append(frame[n].output_objects, ExecuteFailedNotice), writeOk, logOk)
    /\ UNCHANGED <<keys, disableStepLog, kernel, nextWorker, calls, tmux, nextTmux,
                   timeouts, emits>>

\* lines 206-216: the drain takes the next message and stops only on the idle
\* status of this submission; every other message is dropped
DrainMsg(n, writeOk, logOk) ==
    /\ pc[n] = "drain"
    /\ faults + Cost(writeOk) + Cost(logOk) <= MaxFaults
    /\ faults' = faults + Cost(writeOk) + Cost(logOk)
    /\ LET w == frame[n].km
           msg == Head(kernel[w].iopub)
       IN  /\ kernel[w].iopub # <<>>
           /\ kernel' = [kernel EXCEPT ![w].iopub = Tail(@)]
           /\ IF msg.parent = frame[n].msg_id /\ IsIdle(msg)
              THEN Finish(n, Append(frame[n].output_objects, InterruptedNotice),
                          writeOk, logOk)
              ELSE writeOk /\ logOk /\ Continue(n, frame[n].output_objects)
    /\ UNCHANGED <<keys, disableStepLog, nextWorker, calls, tmux, nextTmux, timeouts,
                   emits>>

\* lines 212-216: Empty ends the drain
DrainEmpty(n, writeOk, logOk) ==
    /\ pc[n] = "drain"
    /\ kernel[frame[n].km].iopub = <<>>
    /\ faults + Cost(writeOk) + Cost(logOk) <= MaxFaults
    /\ faults' = faults + Cost(writeOk) + Cost(logOk)
    /\ Finish(n, Append(frame[n].output_objects, InterruptedNotice), writeOk, logOk)
    /\ UNCHANGED <<keys, disableStepLog, kernel, nextWorker, calls, tmux, nextTmux,
                   timeouts, emits>>

\* a variant that lets an exception of the drain leave execute_code
DrainFault_raises(n, writeOk, logOk) ==
    /\ pc[n] = "drain"
    /\ writeOk /\ logOk
    /\ Fault(FALSE)
    /\ Raised(n, "KernelError")
    /\ UNCHANGED <<sessions, disk, log, keys, disableStepLog, kernel, nextWorker, calls,
                   tmux, nextTmux, timeouts, emits>>

\* lines 217-219: any other exception in the drain is recorded as a failed interrupt
DrainFault(n, writeOk, logOk) ==
    /\ pc[n] = "drain"
    /\ faults + 1 + Cost(writeOk) + Cost(logOk) <= MaxFaults
    /\ faults' = faults + 1 + Cost(writeOk) + Cost(logOk)
    /\ Finish(n, Append(frame[n].output_objects, InterruptFailedNotice), writeOk, logOk)
    /\ UNCHANGED <<keys, disableStepLog, kernel, nextWorker, calls, tmux, nextTmux,
                   timeouts, emits>>

\* ------------------------------------------------------------- kernel steps
Running(k) == k.alive /\ k.channels = "open" /\ k.shell # <<>>

\* what a running submission emits: the four outputs and, as a message the
\* poll loop has no branch for, the busy status
EmitTypes == OutputTypes \cup {"status"}

\* the running submission emits a message: an output or a busy status
KernelEmit(w, msg_type) ==
    /\ Running(kernel[w])
    /\ emits < MaxEmit
    /\ emits' = emits + 1
    /\ ~kernel[w].interrupted
    /\ LET k == kernel[w]
           state == IF msg_type = "status" THEN "busy" ELSE ""
       IN  kernel' = [kernel EXCEPT ![w] =
                        [k EXCEPT !.iopub = Append(@, Msg(Head(k.shell).msg_id, msg_type,
                                                          state, DataOf(k.emitted + 1))),
                                  !.emitted = @ + 1]]
    /\ ret' = NoRet
    /\ UNCHANGED <<sessions, keys, disk, log, disableStepLog, nextWorker, calls, pc, frame,
                   tmux, nextTmux, faults, timeouts>>

\* the interrupt is advisory: a submission that ignores it goes on writing
KernelIgnoresInterrupt(w) ==
    /\ Running(kernel[w])
    /\ kernel[w].interrupted
    /\ Len(kernel[w].iopub) < MaxQueue
    /\ kernel' = [kernel EXCEPT ![w].iopub =
                    Append(@, Msg(Head(kernel[w].shell).msg_id, "stream", "", DataOf(0)))]
    /\ ret' = NoRet
    /\ UNCHANGED <<sessions, keys, disk, log, disableStepLog, nextWorker, calls, pc, frame,
                   tmux, nextTmux, faults, timeouts, emits>>

\* the running submission ends (by itself or on the interrupt): the kernel
\* reports idle for it, replies on the shell channel and keeps what the code
\* has set
KernelIdle(w) ==
    /\ Running(kernel[w])
    /\ LET k == kernel[w]
           sub == Head(k.shell)
       IN  kernel' = [kernel EXCEPT ![w] =
                        [k EXCEPT !.iopub = Append(@, Msg(sub.msg_id, "status", "idle", "")),
                                  !.shell = Tail(@),
                                  !.replies = @ + 1,
                                  !.emitted = 0,
                                  !.interrupted = FALSE,
                                  !.mem = @ \cup {sub.code}]]
    /\ ret' = NoRet
    /\ UNCHANGED <<sessions, keys, disk, log, disableStepLog, nextWorker, calls, pc, frame,
                   tmux, nextTmux, faults, timeouts, emits>>

\* ------------------------------------------------------------- close
Remove(seq, x) == SelectSeq(seq, LAMBDA y : y # x)

Without(f, x) == [y \in DOMAIN f \ {x} |-> f[y]]

\* how stopping one session ends: both calls succeed, client.stop_channels()
\* raises, or km.shutdown_kernel(now=True) raises
StopOutcomes == {"stopped", "channels_failed", "shutdown_failed"}

\* the registry with its kernels, as close_session reads and changes it
Registry == [sessions |-> sessions, keys |-> keys, kernel |-> kernel, result |-> "none"]

\* a variant that stops the session but leaves it registered
close_session_keeps(reg, session_name, outcome) ==
    IF session_name \notin DOMAIN reg.sessions
    THEN [reg EXCEPT !.result = "False"]
    ELSE LET w == reg.sessions[session_name].km
         IN  [reg EXCEPT !.kernel[w] = ShutdownKernel(StopChannels(@)), !.result = "True"]

\* a variant that answers True whether or not the name is registered
close_session_pops_default(reg, session_name, outcome) ==
    IF session_name \notin DOMAIN reg.sessions
    THEN [reg EXCEPT !.result = "True"]
    ELSE LET w == reg.sessions[session_name].km
         IN  [reg EXCEPT !.sessions = Without(@, session_name),
                         !.keys = Remove(@, session_name),
                         !.kernel[w] = ShutdownKernel(StopChannels(@)),
                         !.result = "True"]

\* close_session on registry reg: False for a name that is not registered;
\* otherwise the session is popped, then its channels are stopped, then its
\* kernel is shut down, and True is returned.  A call that raises leaves the
\* later ones undone.
close_session(reg, session_name, outcome) ==
    IF session_name \notin DOMAIN reg.sessions
    THEN [reg EXCEPT !.result = "False"]
    ELSE LET w == reg.sessions[session_name].km
             popped == [reg EXCEPT !.sessions = Without(@, session_name),
                                   !.keys = Remove(@, session_name)]
         IN  CASE outcome = "channels_failed" ->
                    [popped EXCEPT !.result = "raise"]
               [] outcome = "shutdown_failed" ->
                    [popped EXCEPT !.kernel[w] = StopChannels(@), !.result = "raise"]
               [] OTHER ->
                    [popped EXCEPT !.kernel[w] = ShutdownKernel(StopChannels(@)),
                                   !.result = "True"]

\* close_all_sessions: close_session on every name of list(self.sessions.keys()),
\* in that order; the session named bad (if any) fails to stop as outcome says
RECURSIVE CloseEach(_, _, _, _)
CloseEach(reg, names, bad, outcome) ==
    IF names = <<>> THEN [reg EXCEPT !.result = "None"]
    ELSE LET one == close_session(reg, Head(names),
                                  IF Head(names) = bad THEN outcome ELSE "stopped")
         IN  IF one.result = "raise" THEN one
             ELSE CloseEach(one, Tail(names), bad, outcome)

close_all_sessions(reg, bad, outcome) == CloseEach(reg, reg.keys, bad, outcome)

ResponseOf(op, name, result) ==
    CASE result = "raise" -> Raise(op, name, "StopError")
      [] result = "True" -> Return(op, name, TRUE)
      [] result = "False" -> Return(op, name, FALSE)
      [] OTHER -> Return(op, name, "None")

\* a client calls close_session(session_name)
CloseSession(session_name, outcome) ==
    /\ pc[session_name] = "idle"
    /\ outcome = "stopped" \/ session_name \in DOMAIN sessions
    /\ Fault(outcome = "stopped")
    /\ LET reg == close_session(Registry, session_name, outcome)
       IN  /\ sessions' = reg.sessions
           /\ keys' = reg.keys
           /\ kernel' = reg.kernel
           /\ ret' = ResponseOf("close_session", session_name, reg.result)
    /\ UNCHANGED <<disk, log, disableStepLog, nextWorker, calls, pc, frame, tmux, nextTmux,
                   timeouts, emits>>

\* the service calls close_all_sessions(); bad is the name whose stop fails,
\* <<>> when none does
CloseAll(bad, outcome) ==
    /\ InFlight = {}
    /\ keys # <<>>
    /\ IF outcome = "stopped" THEN bad = <<>> ELSE bad \in DOMAIN sessions
    /\ Fault(outcome = "stopped")
    /\ LET reg == close_all_sessions(Registry, bad, outcome)
       IN  /\ sessions' = reg.sessions
           /\ keys' = reg.keys
           /\ kernel' = reg.kernel
           /\ ret' = ResponseOf("close_all_sessions", <<>>, reg.result)
    /\ UNCHANGED <<disk, log, disableStepLog, nextWorker, calls, pc, frame, tmux, nextTmux,
                   timeouts, emits>>

\* ------------------------------------------------------------- terminal
\* The terminal toolset (terminal.py) is used from code a kernel runs; it
\* appends to the same steps.jsonl.  tmux maps the id of each live terminal
\* session to what its pane shows.
Keys == {"whoami"}
TermIds == 0..MaxTerm

NoSessionFound == "No session found"

IsTerminalEntry(entry) == entry.tag = "terminal"
TermEntries == Len(SelectSeq(log, IsTerminalEntry))

\* _log_terminal_event builds the entry, _append_log writes it: nothing when
\* DISABLE_STEP_LOG is set.  The write is not guarded: when it fails the
\* exception leaves _append_log (written |-> FALSE).
TerminalEntry(event, session_id, observation) ==
    [tag |-> "terminal", event |-> event, session |-> DecimalOf(session_id),
     observation |-> observation]

_append_log(entry, logOk) ==
    IF disableStepLog THEN [log |-> log, written |-> TRUE]
    ELSE IF logOk THEN [log |-> Append(log, entry), written |-> TRUE]
    ELSE [log |-> log, written |-> FALSE]

\* code that uses the toolset is running in some kernel
ToolsetInUse == \E w \in Workers : kernel[w].alive /\ kernel[w].shell # <<>>

\* the terminal operation op on session_id ends after logging entry
Logged(op, session_id, entry, value, logOk) ==
    LET out == _append_log(entry, logOk)
    IN  /\ logOk \/ ~disableStepLog
        /\ disableStepLog \/ ~logOk \/ TermEntries < MaxTermLog
        /\ Fault(logOk)
        /\ log' = out.log
        /\ ret' = IF out.written THEN Return(op, DecimalOf(session_id), value)
                  ELSE Raise(op, DecimalOf(session_id), "OSError")

\* the operation finds no session with that id: the message is returned,
\* nothing is logged
NotFound(op, session_id, logOk) ==
    /\ logOk
    /\ ret' = Return(op, DecimalOf(session_id), NoSessionFound)
    /\ UNCHANGED <<log, tmux, faults>>

\* Terminal.new_session: the tmux server creates a session, the event is logged
\* and the id returned
new_session(logOk) ==
    /\ ToolsetInUse
    /\ nextTmux < MaxTerm
    /\ tmux' = (nextTmux :> "") @@ tmux
    /\ nextTmux' = nextTmux + 1
    /\ Logged("new_session", nextTmux,
              TerminalEntry("new_session", nextTmux, "created session"), nextTmux, logOk)
    /\ UNCHANGED <<sessions, keys, disk, disableStepLog, kernel, nextWorker, calls, pc,
                   frame, timeouts, emits>>

\* Terminal.kill_session
kill_session(session_id, logOk) ==
    /\ ToolsetInUse
    /\ IF session_id \notin DOMAIN tmux
       THEN NotFound("kill_session", session_id, logOk)
       ELSE /\ tmux' = Without(tmux, session_id)
            /\ Logged("kill_session", session_id,
                      TerminalEntry("kill_session", session_id, "session killed"),
                      "None", logOk)
    /\ UNCHANGED <<sessions, keys, disk, disableStepLog, kernel, nextWorker, calls, pc,
                   frame, nextTmux, timeouts, emits>>

\* Terminal.get_output: the pane is captured, logged and returned
get_output(session_id, logOk) ==
    /\ ToolsetInUse
    /\ IF session_id \notin DOMAIN tmux
       THEN NotFound("get_output", session_id, logOk)
       ELSE /\ Logged("get_output", session_id,
                      TerminalEntry("get_output", session_id, tmux[session_id]),
                      tmux[session_id], logOk)
            /\ UNCHANGED tmux
    /\ UNCHANGED <<sessions, keys, disk, disableStepLog, kernel, nextWorker, calls, pc,
                   frame, nextTmux, timeouts, emits>>

\* Terminal.send_keys: the keys reach the pane, which is captured, logged and
\* returned
send_keys(session_id, keys_sent, logOk) ==
    /\ ToolsetInUse
    /\ IF session_id \notin DOMAIN tmux
       THEN NotFound("send_keys", session_id, logOk)
       ELSE /\ tmux' = [tmux EXCEPT ![session_id] = keys_sent]
            /\ Logged("send_keys", session_id,
                      TerminalEntry("send_keys", session_id, keys_sent), keys_sent, logOk)
    /\ UNCHANGED <<sessions, keys, disk, disableStepLog, kernel, nextWorker, calls, pc,
                   frame, nextTmux, timeouts, emits>>

TerminalNext ==
    \/ \E ok \in BOOLEAN : new_session(ok)
    \/ \E id \in TermIds, ok \in BOOLEAN : kill_session(id, ok)
    \/ \E id \in TermIds, ok \in BOOLEAN : get_output(id, ok)
    \/ \E id \in TermIds, k \in Keys, ok \in BOOLEAN : send_keys(id, k, ok)

ExecNext ==
    \/ \E n \in SessionNames : Call(n, CodeOf(calls + 1))
    \/ \E n \in SessionNames, w \in BOOLEAN, ok \in BOOLEAN : Submit(n, w, ok)
    \/ \E n \in SessionNames, ok \in BOOLEAN, w \in BOOLEAN, l \in BOOLEAN :
            PollTimeout(n, ok, w, l)
    \/ \E n \in SessionNames, w \in BOOLEAN, l \in BOOLEAN : PollMsg(n, w, l)
    \/ \E n \in SessionNames : PollEmpty(n)
    \/ \E n \in SessionNames, w \in BOOLEAN, l \in BOOLEAN : PollFault(n, w, l)
    \/ \E n \in SessionNames, w \in BOOLEAN, l \in BOOLEAN : DrainMsg(n, w, l)
    \/ \E n \in SessionNames, w \in BOOLEAN, l \in BOOLEAN : DrainEmpty(n, w, l)
    \/ \E n \in SessionNames, w \in BOOLEAN, l \in BOOLEAN : DrainFault(n, w, l)
    \/ \E n \in SessionNames, o \in StopOutcomes : CloseSession(n, o)
    \/ \E bad \in SessionNames \cup {<<>>}, o \in StopOutcomes : CloseAll(bad, o)

KernelNext ==
    \/ \E w \in Workers, t \in EmitTypes : KernelEmit(w, t)
    \/ \E w \in Workers : KernelIgnoresInterrupt(w)
    \/ \E w \in Workers : KernelIdle(w)

\* the executor service with its kernels
Next == ExecNext \/ KernelNext

Spec == Init /\ [][Next]_vars

\* the step log: the executor with kernels that only report idle and with no
\* deadline passing, next to the terminal toolset
LogNext ==
    \/ \E n \in SessionNames : Call(n, CodeOf(calls + 1))
    \/ \E n \in SessionNames, w \in BOOLEAN, ok \in BOOLEAN : Submit(n, w, ok)
    \/ \E n \in SessionNames, w \in BOOLEAN, l \in BOOLEAN : PollMsg(n, w, l)
    \/ \E n \in SessionNames : PollEmpty(n)
    \/ \E n \in SessionNames, w \in BOOLEAN, l \in BOOLEAN : PollFault(n, w, l)
    \/ \E w \in Workers : KernelIdle(w)
    \/ TerminalNext

LogSpec == Init /\ [][LogNext]_vars

\* the timeout path with no fault of the environment: the kernels emit, end
\* or ignore the interrupt as they like
LiveNext ==
    \/ \E n \in SessionNames : Call(n, CodeOf(calls + 1))
    \/ \E n \in SessionNames : Submit(n, TRUE, TRUE)
    \/ \E n \in SessionNames : PollTimeout(n, TRUE, TRUE, TRUE)
    \/ \E n \in SessionNames : PollMsg(n, TRUE, TRUE)
    \/ \E n \in SessionNames : PollEmpty(n)
    \/ \E n \in SessionNames : DrainMsg(n, TRUE, TRUE)
    \/ \E n \in SessionNames : DrainEmpty(n, TRUE, TRUE)
    \/ KernelNext

\* the thread that runs execute_code on name n is never suspended for ever:
\* every pass of its loops (get_iopub_msg returns or times out) is taken
Progress(n) ==
    \/ Submit(n, TRUE, TRUE)
    \/ PollMsg(n, TRUE, TRUE)
    \/ DrainMsg(n, TRUE, TRUE)
    \/ DrainEmpty(n, TRUE, TRUE)

LiveSpec == Init /\ [][LiveNext]_vars /\ \A n \in SessionNames : WF_vars(Progress(n))

\* concurrent callers on distinct names, with no fault after the session is
\* created and no deadline passing: each name has at most one call in flight
ConcNext ==
    \/ \E n \in SessionNames : Begin(n, CodeOf(calls + 1))
    \/ \E n \in SessionNames : Submit(n, TRUE, TRUE)
    \/ \E n \in SessionNames : PollMsg(n, TRUE, TRUE)
    \/ \E n \in SessionNames : PollEmpty(n)
    \/ \E w \in Workers, t \in EmitTypes : KernelEmit(w, t)
    \/ \E w \in Workers : KernelIdle(w)

ConcSpec == Init /\ [][ConcNext]_vars

\* ------------------------------------------------------------- properties
\* a step that ends the execute_code call in flight on name n
Ends(n) == pc[n] # "idle" /\ pc'[n] = "idle"

\* a step that ends the call on n by returning to the caller
Returns(n) == Ends(n) /\ ret'.kind = "return"

\* a step in which execute_code is called on the registered name n
CalledOnRegistered(n) == pc[n] = "idle" /\ pc'[n] # "idle" /\ n \in DOMAIN sessions

\* a step in which execute_code is called on the unregistered name n
CalledOnUnregistered(n) ==
    /\ pc[n] = "idle"
    /\ n \notin DOMAIN sessions
    /\ calls' = calls + 1
    /\ pc'[n] # "idle" \/ (ret'.op = "execute_code" /\ ret'.name = n)

Range(seq) == {seq[i] : i \in DOMAIN seq}

\* C1: every execute_code call on a session increases the session's execution
\* counter by exactly 1, whatever its outcome (return, timeout, or a fault
\* while submitting, polling or persisting).
C1_CounterIncrements ==
    [][\A n \in SessionNames :
          Ends(n) => sessions'[n].execution_count = frame[n].exec_count + 1]_vars

\* C2: a timeout never destroys the session.  Every step of a call in flight,
\* the timeout branch included, leaves the name registered with the same
\* kernel and channel, the kernel alive with what it holds and the channel
\* open; the interrupt reaches the running submission without stopping the
\* kernel; a call on a registered name starts no kernel and runs on the
\* session's kernel; and a name leaves the registry only in a step of
\* close_session or close_all_sessions.
C2_TimeoutKeepsSession ==
    [][/\ \A n \in SessionNames :
            pc[n] # "idle" =>
                LET w == sessions[n].km
                IN  /\ n \in DOMAIN sessions'
                    /\ sessions'[n].km = w
                    /\ sessions'[n].client = sessions[n].client
                    /\ kernel'[w].alive
                    /\ kernel'[w].channels = "open"
                    /\ kernel[w].mem \subseteq kernel'[w].mem
                    /\ (pc[n] = "poll" /\ pc'[n] = "drain" /\ kernel[w].shell # <<>>)
                            => kernel'[w].interrupted
       /\ \A n \in SessionNames :
            CalledOnRegistered(n) =>
                /\ kernel' = kernel
                /\ nextWorker' = nextWorker
                /\ frame'[n].km = sessions[n].km
                /\ sessions' = sessions
       /\ \A n \in DOMAIN sessions :
            n \notin DOMAIN sessions' => ret'.op \in {"close_session", "close_all_sessions"}
      ]_vars

\* C2 witness: a call is polling on a session whose previous call timed out
C2_Witness ==
    \E n \in DOMAIN sessions :
        /\ pc[n] = "poll"
        /\ Len(sessions[n].notebook) = 2
        /\ HasTimedOut(sessions[n].notebook[1].outputs)
        /\ \E i \in DOMAIN sessions[n].notebook[1].outputs :
                sessions[n].notebook[1].outputs[i] = InterruptedNotice
        /\ sessions[n].execution_count = 2
        /\ frame[n].km = sessions[n].km
        /\ kernel[sessions[n].km].alive

\* C3: after close_session(name) the name is absent from list_sessions(), and
\* an execute_code that registers a name creates a brand-new session: a kernel
\* that did not exist, an empty notebook, execution counter 1.
C3_CloseThenFresh ==
    [][/\ ret'.op = "close_session" =>
            /\ ret'.name \notin Range(keys')
            /\ ret'.name \notin DOMAIN sessions'
       /\ \A n \in SessionNames :
            (n \notin DOMAIN sessions /\ n \in DOMAIN sessions') =>
                LET w == sessions'[n].km
                IN  /\ sessions'[n].execution_count = 1
                    /\ sessions'[n].notebook = <<>>
                    /\ kernel[w] = NoKernel
                    /\ kernel'[w] = StartedKernel
                    /\ \A m \in DOMAIN sessions : sessions[m].km # w
                    /\ frame'[n].exec_count = 1
      ]_vars

\* C3 witness: a name whose earlier session returned a call (its step is in
\* the log) is registered again, counter 1, on a second kernel
C3_Witness ==
    \E n \in DOMAIN sessions :
        /\ \E i \in DOMAIN log : log[i].tag = "code_execution" /\ log[i].session = n
        /\ sessions[n].execution_count = 1
        /\ sessions[n].notebook = <<>>
        /\ sessions[n].km = 2
        /\ ~kernel[1].alive

\* C4: the value close_session returns is true iff the name was registered at
\* the call; on an unknown name it returns false, raises nothing and changes
\* nothing; a close_session that follows a close_session of the same name
\* returns false.
C4_CloseReturnsRegistered ==
    [][ret'.op = "close_session" =>
          LET n == ret'.name
          IN  /\ ret'.kind = "return" => (ret'.value <=> n \in DOMAIN sessions)
              /\ n \notin DOMAIN sessions =>
                    /\ ret' = Return("close_session", n, FALSE)
                    /\ UNCHANGED <<sessions, keys, disk, log, kernel, nextWorker, pc, frame>>
              /\ (ret.op = "close_session" /\ ret.name = n) =>
                    ret' = Return("close_session", n, FALSE)
      ]_vars

\* C4 witness: close_session has returned false for a name that was
\* registered before (its step is in the log) and whose kernel is shut down
C4_Witness ==
    /\ ret = Return("close_session", ret.name, FALSE)
    /\ \E i \in DOMAIN log : log[i].tag = "code_execution" /\ log[i].session = ret.name
    /\ nextWorker = 2
    /\ ~kernel[1].alive
    /\ kernel[1].channels = "closed"

\* C5: after N execute_code calls on a session have returned (its counter is
\* then N + 1: line 262 runs exactly in the calls that return), the artifact
\* holds exactly N entries, the last one with the code and the outputs of the
\* call that just returned, the earlier ones as they were.
C5_ArtifactHasNEntries ==
    [][\A n \in SessionNames :
          Returns(n) =>
              LET N == sessions'[n].execution_count - 1
                  before == disk[frame[n].filepath]
                  after == disk'[frame[n].filepath]
              IN  /\ Len(after) = N
                  /\ after[N].source = frame[n].code
                  /\ _format_output(after[N].outputs) = ret'.value
                  /\ \A k \in 1..(N - 1) : after[k] = before[k]
      ]_vars

TerminalOps == {"new_session", "kill_session", "get_output", "send_keys"}

\* the step ends an execute_code call whose write of the log entry succeeds
CodeEntryWritten ==
    \E n \in SessionNames, w \in BOOLEAN, i \in BOOLEAN :
        \/ PollMsg(n, w, TRUE)
        \/ PollFault(n, w, TRUE)
        \/ PollTimeout(n, i, w, TRUE)
        \/ DrainMsg(n, w, TRUE)
        \/ DrainEmpty(n, w, TRUE)
        \/ DrainFault(n, w, TRUE)

\* the step ends a terminal operation on a session the tmux server has
TerminalFound ==
    IF ret'.op = "new_session" THEN TRUE ELSE ret'.value # NoSessionFound

C7_FaultsAreCaught ==
    ret.op = "execute_code" => ~(ret.kind = "raise" /\ ret.value = "ClientError")

\* C8: once the deadline has fired and the interrupt has been sent (the call
\* is in the drain), execute_code eventually returns, whatever the kernel does.
C8_DrainReturns ==
    \A n \in SessionNames : (pc[n] = "drain") ~> (pc[n] = "idle")

\* C9: an execute_code call on an unregistered name whose kernel fails to
\* start or to become ready raises to the caller and leaves nothing behind:
\* the registry and list_sessions() are unchanged, no kernel is alive and no
\* channel is open that was not before, and no call is in flight.
C9_FailedStartLeavesNothing ==
    [][\A n \in SessionNames :
          (CalledOnUnregistered(n) /\ n \notin DOMAIN sessions') =>
              /\ ret'.op = "execute_code"
              /\ ret'.name = n
              /\ ret'.kind = "raise"
              /\ ret'.value \in {"StartError", "RuntimeError"}
              /\ sessions' = sessions
              /\ keys' = keys
              /\ pc'[n] = "idle"
              /\ \A w \in Workers :
                    /\ ~kernel[w].alive => ~kernel'[w].alive
                    /\ kernel[w].channels # "open" => kernel'[w].channels # "open"
      ]_vars

\* C9 witness: the first kernel did not become ready; the call has raised,
\* the kernel is shut down, its channel closed, no name registered
C9_Witness ==
    /\ ret.op = "execute_code"
    /\ ret.kind = "raise"
    /\ ret.value = "RuntimeError"
    /\ nextWorker = 2
    /\ ~kernel[1].alive
    /\ kernel[1].channels = "closed"
    /\ list_sessions = <<>>

\* C10: after close_all_sessions, whether or not stopping a session failed,
\* no session is registered and list_sessions() is empty.
C10_CloseAllClosesAll ==
    ret.op = "close_all_sessions" => (list_sessions = <<>> /\ DOMAIN sessions = {})

\* C11: writing the step log never raises: no terminal operation ends with an
\* exception (the only one the toolset's operations can end with here is the
\* one of the entry's write in _append_log), the operation returns its result.
C11_LoggingNeverRaises ==
    ret.op \in TerminalOps => ret.kind = "return"

\* C12: a failing write of the notebook file does not abort execute_code: no
\* call ends by raising the OSError of the pending or of the final write.
C12_PersistFaultsAreCaught ==
    ret.op = "execute_code" => ~(ret.kind = "raise" /\ ret.value = "OSError")

\* a step of the execute_code call on name n
StepOf(n) == pc'[n] # pc[n] \/ frame'[n] # frame[n]

\* C13: sessions are independent under concurrent execution: a step of an
\* execute_code call on one name leaves every other registered session as it
\* is: its registration, its counter and document, and its artifact on disk.
C13_SessionsIndependent ==
    [][\A n \in SessionNames, m \in SessionNames :
          (n # m /\ StepOf(n) /\ m \in DOMAIN sessions) =>
              /\ m \in DOMAIN sessions'
              /\ m \in Range(keys')
              /\ sessions'[m] = sessions[m]
              /\ sessions[m].filepath \in DOMAIN disk =>
                    /\ sessions[m].filepath \in DOMAIN disk'
                    /\ disk'[sessions[m].filepath] = disk[sessions[m].filepath]
      ]_vars

\* the step takes the head of the iopub queue of the kernel of the call on n
Takes(n) ==
    LET w == frame[n].km
    IN  /\ kernel[w].iopub # <<>>
        /\ kernel'[w].iopub = Tail(kernel[w].iopub)

\* the message such a step takes
Taken(n) == Head(kernel[frame[n].km].iopub)

\* the outputs of the call on n after the step: its output_objects, or what
\* it stored in its cell when the step ends the call
OutputsAfter(n) ==
    IF pc'[n] = "idle" THEN sessions'[n].notebook[frame[n].cell].outputs
    ELSE frame'[n].output_objects

Contains(seq, x) == \E i \in DOMAIN seq : seq[i] = x

C15_OnlyOwnIdleEnds ==
    [][\A n \in SessionNames :
          pc[n] = "poll" =>
              LET ownIdle == /\ Takes(n)
                             /\ Taken(n).parent = frame[n].msg_id
                             /\ Taken(n).msg_type = "status"
                             /\ Taken(n).execution_state = "idle"
                  deadline == timeouts' = timeouts + 1
                  fault == faults' > faults
              IN  /\ (pc'[n] # "poll" /\ ~deadline /\ ~fault) => (ownIdle /\ Returns(n))
                  /\ (Takes(n) /\ ~ownIdle) => pc'[n] = "poll"
                  /\ (/\ Takes(n)
                      /\ HasError(frame[n].output_objects)
                      /\ Taken(n).parent = frame[n].msg_id
                      /\ Taken(n).msg_type \in OutputTypes) =>
                          /\ Len(OutputsAfter(n)) = Len(frame[n].output_objects) + 1
                          /\ OutputsAfter(n)[Len(OutputsAfter(n))].data = Taken(n).data
      ]_vars

\* C15 witness: a call has returned an error output followed by a stream output
C15_Witness ==
    /\ ret.op = "execute_code"
    /\ ret.kind = "return"
    /\ Len(ret.value) = 2
    /\ ret.value[1].type = "error"
    /\ ret.value[2].type = "stream"

\* C16: in the notebook of every session the k-th cell carries execution
\* number k, so no two cells carry the same number.
C16_SequenceNumbersUnique ==
    \A n \in DOMAIN sessions :
        \A k \in DOMAIN sessions[n].notebook : sessions[n].notebook[k].execution_count = k

IsNotice(out) ==
    out \in {TimeoutNotice, InterruptedNotice, InterruptFailedNotice, ExecuteFailedNotice}

\* the step ends the call on n with no exception but the OSError of the final
\* write, and a call that returns returns its outputs formatted
EndsWith(n) ==
    /\ pc'[n] = "idle"
    /\ ret'.kind = "raise" => ret'.value = "OSError"
    /\ Returns(n) => ret'.value = _format_output(OutputsAfter(n))

\* C17: an execution that ends because the deadline fired ends with the
\* outputs collected before the deadline followed by exactly two notices, the
\* timeout notice and then either the interrupted or the failed-interrupt
\* notice: the poll loop holds no notice; the step of the deadline appends the
\* timeout notice and, when interrupt_kernel() fails, the failed-interrupt
\* notice at once, ending the call; the drain appends nothing until it ends
\* the call with one of the two notices; neither a failing interrupt nor a
\* fault of the drain leaves execute_code as an exception.
C17_TimeoutNotices ==
    [][\A n \in SessionNames :
          /\ pc[n] = "poll" =>
                \A i \in DOMAIN frame[n].output_objects :
                    ~IsNotice(frame[n].output_objects[i])
          /\ (pc[n] = "poll" /\ pc'[n] # "poll" /\ timeouts' = timeouts + 1) =>
                IF pc'[n] = "drain"
                THEN frame'[n].output_objects = Append(frame[n].output_objects, TimeoutNotice)
                ELSE /\ EndsWith(n)
                     /\ OutputsAfter(n) = frame[n].output_objects
                                            \o <<TimeoutNotice, InterruptFailedNotice>>
          /\ pc[n] = "drain" =>
                IF pc'[n] = "drain"
                THEN frame'[n].output_objects = frame[n].output_objects
                ELSE /\ EndsWith(n)
                     /\ \E notice \in {InterruptedNotice, InterruptFailedNotice} :
                            OutputsAfter(n) = Append(frame[n].output_objects, notice)
      ]_vars

\* C17 witness: a call has returned an output it collected before the
\* deadline, the timeout notice and the interrupted notice
C17_Witness ==
    /\ ret.op = "execute_code"
    /\ ret.kind = "return"
    /\ Len(ret.value) = 3
    /\ ret.value[1].type = "stream"
    /\ ret.value[2] = FormatOne(TimeoutNotice)
    /\ ret.value[3] = FormatOne(InterruptedNotice)

\* C18: between the submission and the return of an execute_code call the
\* artifact of its session holds one entry per call made so far on the session
\* (one per cell of the document, line 182), the earlier ones as the document
\* has them and the last one with the submitted code and no outputs; once the
\* call has returned, the last entry holds the outputs it returned.
C18_PendingEntryOnDisk ==
    /\ \A n \in SessionNames :
          pc[n] \in {"poll", "drain"} =>
              /\ frame[n].filepath \in DOMAIN disk
              /\ LET entries == disk[frame[n].filepath]
                 IN  /\ entries = sessions[n].notebook
                     /\ Len(entries) = frame[n].cell
                     /\ entries[Len(entries)].source = frame[n].code
                     /\ entries[Len(entries)].outputs = <<>>
    /\ (ret.op = "execute_code" /\ ret.kind = "return") =>
          LET entries == disk[sessions[ret.name].filepath]
          IN  /\ entries = sessions[ret.name].notebook
              /\ _format_output(entries[Len(entries)].outputs) = ret.value

\* C19: no output that has arrived is lost when the deadline fires: every
\* stream / execute_result / display_data / error message of this submission
\* that the call takes from the channel, in the poll loop or in the drain
\* after the interrupt, is added to the outputs of the call.
C19_NoOutputLost ==
    [][\A n \in SessionNames :
          (/\ pc[n] \in {"poll", "drain"}
           /\ Takes(n)
           /\ Taken(n).parent = frame[n].msg_id
           /\ Taken(n).msg_type \in OutputTypes) =>
              /\ Len(OutputsAfter(n)) > Len(frame[n].output_objects)
              /\ \E i \in DOMAIN OutputsAfter(n) :
                    /\ i > Len(frame[n].output_objects)
                    /\ OutputsAfter(n)[i].output_type = Taken(n).msg_type
                    /\ OutputsAfter(n)[i].data = Taken(n).data
      ]_vars

\* C20: two registered sessions never have the same artifact path, the path
\* of a session does not change while it is registered, and the path given to
\* a session that is created is not the path of a file on disk.
C20_ArtifactPathsUnique ==
    [][/\ \A n \in DOMAIN sessions', m \in DOMAIN sessions' :
            n # m => sessions'[n].filepath # sessions'[m].filepath
       /\ \A n \in DOMAIN sessions \cap DOMAIN sessions' :
            sessions'[n].filepath = sessions[n].filepath
       /\ \A n \in DOMAIN sessions' \ DOMAIN sessions :
            sessions'[n].filepath \notin DOMAIN disk
      ]_vars

\* C21: the live kernels are exactly the kernels held by the registered
\* sessions, one per registered name: every kernel that is alive is the km of
\* a registered session, the km of every registered session is alive, and no
\* two names hold the same kernel.
C21_LiveKernelsAreRegistered ==
    /\ \A w \in Workers :
          kernel[w].alive => \E n \in DOMAIN sessions : sessions[n].km = w
    /\ \A n \in DOMAIN sessions : kernel[sessions[n].km].alive
    /\ \A n \in DOMAIN sessions, m \in DOMAIN sessions :
          n # m => sessions[n].km # sessions[m].km

====
